---------------------------- MODULE Spec2Model ----------------------------
(***************************************************************************)
(* Model of the OAuth redirect-capture listener of src-tauri/src/lib.rs:   *)
(* the registry commands start_oauth_server / stop_oauth_server, the       *)
(* listener task run_oauth_server, and the per-connection handler task.    *)
(*                                                                         *)
(* Text is modelled as a sequence of symbols.  A symbol is either one of   *)
(* the delimiter characters the code looks at (space, CRLF, '/', '?',      *)
(* '&', '=') or a run of other characters that the code never looks into   *)
(* ("callback", "google", "%41", ...).  No symbol of the alphabet is the   *)
(* concatenation of others, so equality of symbol sequences is equality    *)
(* of the strings they stand for.                                          *)
(*                                                                         *)
(* Option<T> is modelled as a sequence of length 0 (None) or 1 (Some).     *)
(***************************************************************************)
EXTENDS Naturals, Sequences, FiniteSets, TLC

VARIABLES
    reg,      \* servers: HashMap<u16, JoinHandle>; reg[p] = task id, 0 = no entry
    cur,      \* the command invocation holding the registry lock, <<>> if free
    tasks,    \* the listener tasks spawned so far (index = JoinHandle identity)
    conns,    \* the accepted connections and their handler tasks
    ret       \* what the last command invocation to return returned

vars == <<reg, cur, tasks, conns, ret>>

---------------------------------------------------------------------------
(* Bounds of the model *)

MaxTasks == 2     \* start_oauth_server invocations (each spawns one task)
MaxConns == 2     \* connections accepted over all listeners
MaxItems == 2     \* '&'-separated items in an enumerated query string

Ports == {8080, 8081}

---------------------------------------------------------------------------
(* Symbols *)

SP    == " "
CRLF  == "\r\n"
SLASH == "/"
QMARK == "?"
AMP   == "&"
EQ    == "="

None == <<>>
Some(v) == <<v>>

CallbackPrefix == <<SLASH, "callback", SLASH>>

Response200 ==
    "HTTP/1.1 200 OK\r\n\r\n<html><body><h1>...</h1><p>...</p><script>window.close();</script></body></html>"

---------------------------------------------------------------------------
(* String helpers: str::find, str::split, str::starts_with, str::lines,    *)
(* str::split_whitespace as the handler uses them.  They are functions, so *)
(* that an argument is evaluated once, where it is applied.                *)

Str == Seq(STRING)

\* str::find(ch) as an index from 1: the first occurrence of symbol ch in
\* s, 0 if there is none.
Find[s \in Str, ch \in STRING] ==
    IF \E i \in 1..Len(s) : s[i] = ch
    THEN CHOOSE i \in 1..Len(s) :
            s[i] = ch /\ \A j \in 1..(i - 1) : s[j] # ch
    ELSE 0

\* The positions of the occurrences of sep in s, in increasing order.
Positions[s \in Str, sep \in STRING] ==
    SelectSeq([i \in 1..Len(s) |-> i], LAMBDA i : s[i] = sep)

\* The segments of s between the separator positions `at`.
Segments[s \in Str, at \in Seq(Nat)] ==
    [k \in 1..(Len(at) + 1) |->
        SubSeq(s,
               IF k = 1 THEN 1 ELSE at[k - 1] + 1,
               IF k > Len(at) THEN Len(s) ELSE at[k] - 1)]

\* str::split(sep): the text between consecutive separators, empty
\* segments included; one more segment than there are separators.
Split[s \in Str, sep \in STRING] == Segments[s, Positions[s, sep]]

StartsWith[s \in Str, pre \in Str] ==
    /\ Len(s) >= Len(pre)
    /\ SubSeq(s, 1, Len(pre)) = pre

\* request.lines().next(): None for empty input, else the text before the
\* first line terminator.
FirstLine[request \in Str] ==
    IF request = <<>> THEN None ELSE Some(Head(Split[request, CRLF]))

NonEmpty(s) == s # <<>>

\* first_line.split_whitespace(): the non-empty runs between spaces.
SplitWhitespace[line \in Str] == SelectSeq(Split[line, SP], NonEmpty)

\* .nth(n) of an iterator over strings, n counted from 0.
Nth[seq \in Seq(Str), n \in Nat] ==
    IF Len(seq) > n THEN Some(seq[n + 1]) ELSE None

\* first_line.split_whitespace().nth(1) of an Option of a line
SecondToken[fl \in Seq(Str)] ==
    IF fl = None THEN None ELSE Nth[SplitWhitespace[fl[1]], 1]

\* lines 62-63: request.lines().next(), then split_whitespace().nth(1)
PathOf[request \in Str] == SecondToken[FirstLine[request]]

---------------------------------------------------------------------------
(* Query parsing and payload construction (lib.rs 66-90)                    *)

\* Percent escapes of the alphabet.  urlencoding::decode turns "%XX" into the
\* byte XX, leaves a '%' that is not followed by two hex digits as it is,
\* and fails (FromUtf8Error) when the decoded bytes are not UTF-8.
BadUtf8Escapes == {"%FF"}

DecodeSymbol(c) ==
    CASE c = "%41" -> "A"
      [] c = "%3D" -> EQ
      [] c = "%26" -> AMP
      [] OTHER     -> c

\* urlencoding::decode(value): Result as an Option (None = Err).
Decode[value \in Str] ==
    IF \E i \in 1..Len(value) : value[i] \in BadUtf8Escapes
    THEN None
    ELSE Some([i \in 1..Len(value) |-> DecodeSymbol(value[i])])

\* A lossy fallback: the replacement character in place of a value that
\* does not decode.
UnwrapOrReplacement(opt) == IF opt = None THEN <<"?">> ELSE opt[1]

\* Result::unwrap_or_default on a string: the empty string on Err.
UnwrapOrDefault(opt) == IF opt = None THEN <<>> ELSE opt[1]

\* The value of a pair: the second part of pair.split('='), decoded.
ValueOf(parts) == UnwrapOrDefault(Decode[parts[2]])

\* The filter_map closure: pair.split('=') and its first two parts.
\* None when the split yields a single part.
PairOf[pair \in Str] ==
    LET parts == Split[pair, EQ] IN
    IF Len(parts) >= 2 THEN Some(<<parts[1], ValueOf(parts)>>) ELSE None

IsSome(opt) == opt # None

\* .filter_map(closure): the (key, value) pairs of the items the closure
\* keeps, in input order.
FilterMap[items \in Seq(Str)] ==
    LET opts == [i \in 1..Len(items) |-> PairOf[items[i]]]
        kept == SelectSeq(opts, IsSome)
    IN [i \in 1..Len(kept) |-> kept[i][1]]

\* query.split('&').filter_map(...)
Pairs[query \in Str] == FilterMap[Split[query, AMP]]

\* A map that keeps the first insert of a key (entry().or_insert()).
WinnerIsFirst(pairs, k) ==
    CHOOSE i \in 1..Len(pairs) :
        /\ pairs[i][1] = k
        /\ \A j \in 1..Len(pairs) : pairs[j][1] = k => i <= j

\* The insert that decides the value of key k: the last one.
Winner(pairs, k) ==
    CHOOSE i \in 1..Len(pairs) :
        /\ pairs[i][1] = k
        /\ \A j \in 1..Len(pairs) : pairs[j][1] = k => j <= i

\* .collect::<HashMap<String, String>>(): a later insert of a key replaces
\* the earlier one.
Collect[pairs \in Seq(Seq(Str))] ==
    [k \in {pairs[i][1] : i \in 1..Len(pairs)} |-> pairs[Winner(pairs, k)][2]]

\* HashMap::get
Get(params, key) == IF key \in DOMAIN params THEN Some(params[key]) ELSE None

\* &path[query_start + 1..]
QueryOf[path \in Str] == SubSeq(path, Find[path, QMARK] + 1, Len(path))

\* path.split('/').nth(2).unwrap_or("unknown")
Provider(path) ==
    LET seg == Nth[Split[path, SLASH], 2] IN
    IF seg = None THEN <<"unknown">> ELSE seg[1]

\* json!({...}) of lines 84-90 over the collected pairs; a None field is
\* JSON null.
Json[provider \in Str, pairs \in Seq(Seq(Str))] ==
    LET params == Collect[pairs] IN
    [ provider          |-> provider,
      code              |-> Get(params, <<"code">>),
      state             |-> Get(params, <<"state">>),
      error             |-> Get(params, <<"error">>),
      error_description |-> Get(params, <<"error_description">>) ]

\* lines 66-90: the payload the handler builds from the request path
Payload[path \in Str] == Json[Provider(path), Pairs[QueryOf[path]]]

\* The two conditions that guard the emit: lines 64 and 66.
IsCallback(path) == StartsWith[path, CallbackPrefix]

HasQuery(path) == Find[path, QMARK] # 0

---------------------------------------------------------------------------
(* State *)

NoHandle == 0

EmptyRegistry == [p \in Ports |-> NoHandle]

\* A listener task: tokio::spawn(async move { run_oauth_server(..) }).
\*   st     "queued"    spawned, not polled yet
\*          "binding"   first poll under way, bind not yet attempted
\*          "idle"      bound, parked in listener.accept().await
\*          "polling"   bound, woken and polled: accept is about to return
\*          "failed_inuse" / "failed_env"   bind returned Err, task finished
\*          "exited"    accept returned Err, loop left, task finished
\*          "cancelled" the runtime dropped the future after an abort
\*   abort  JoinHandle::abort() has reached it before it finished
\*   res    what the start_oauth_server call that spawned it returned
\*          ("none" until it has returned)
NewTask(p) ==
    [port |-> p, st |-> "queued", abort |-> FALSE, res |-> "none"]

TaskIds == 1..Len(tasks)

ConnIds == 1..Len(conns)

\* The listener socket exists from a successful bind until the task's future
\* is dropped or the function returns.
Bound(t) == tasks[t].st \in {"idle", "polling"}

PortHeld(p) == \E t \in TaskIds : tasks[t].port = p /\ Bound(t)

FinishedStates == {"failed_inuse", "failed_env", "exited", "cancelled"}

Finished(t) == tasks[t].st \in FinishedStates

\* What the peer of a connection does: sends nothing, makes the read fail,
\* or delivers `bytes` to the handler's single read (possibly none).
Silent == [kind |-> "silent", bytes |-> <<>>]

ReadFails == [kind |-> "err", bytes |-> <<>>]

Sends(bytes) == [kind |-> "data", bytes |-> bytes]

NewConn(t, client) ==
    [lst |-> t, client |-> client, pc |-> "read", events |-> <<>>, resp |-> <<>>]

RequestLine(path) == <<"GET", SP>> \o path \o <<SP, "HTTP/1.1", CRLF>>

Headers == <<"Host:", SP, "127.0.0.1", CRLF, CRLF>>

GoogleCallback ==
    CallbackPrefix \o
    <<"google", QMARK, "code", EQ, "abc123", AMP, "state", EQ, "xyz">>

Favicon == <<SLASH, "favicon.ico">>

\* The peers the lifecycle specification draws from.
SampleClients ==
    { Silent,
      Sends(RequestLine(GoogleCallback) \o Headers) }

Init ==
    /\ reg = EmptyRegistry
    /\ cur = None
    /\ tasks = <<>>
    /\ conns = <<>>
    /\ ret = "none"

---------------------------------------------------------------------------
(* start_oauth_server (lib.rs 13-34).  The MutexGuard `servers` lives from  *)
(* line 18 to the return, so the steps below run with the lock held: `cur`  *)
(* is the invocation holding it, and any other invocation waits at its own  *)
(* line 18 / line 40.                                                       *)

\* JoinHandle::abort: marks the task for cancellation; no effect on a task
\* that has already finished.
Abort(ts, h) ==
    IF ts[h].st \in FinishedStates THEN ts ELSE [ts EXCEPT ![h].abort = TRUE]

\* line 18: state.lock()
StartLock(p) ==
    /\ cur = None
    /\ Len(tasks) < MaxTasks
    /\ cur' = Some([cmd |-> "start", port |-> p, pc |-> "remove",
                    old |-> NoHandle, new |-> NoHandle])
    /\ UNCHANGED <<reg, tasks, conns, ret>>

\* start_oauth_server that takes the old handle out of the map and drops
\* it without aborting it: a dropped JoinHandle detaches its task.
StartRemoveDetaches ==
    /\ cur # None
    /\ cur[1].cmd = "start" /\ cur[1].pc = "remove"
    /\ reg' = [reg EXCEPT ![cur[1].port] = NoHandle]
    /\ cur' = Some([cur[1] EXCEPT !.pc = "spawn", !.old = reg[cur[1].port]])
    /\ UNCHANGED <<tasks, conns, ret>>

\* start_oauth_server that stops every running server before it starts
\* the new one (drain() in place of remove(&port)).
StartRemoveDrains ==
    /\ cur # None
    /\ cur[1].cmd = "start" /\ cur[1].pc = "remove"
    /\ reg' = EmptyRegistry
    /\ tasks' = [t \in TaskIds |->
                   IF t \in {reg[p] : p \in Ports} \ {NoHandle}
                   THEN Abort(tasks, t)[t] ELSE tasks[t]]
    /\ cur' = Some([cur[1] EXCEPT !.pc = "spawn", !.old = reg[cur[1].port]])
    /\ UNCHANGED <<conns, ret>>

\* lines 21-23: if let Some(handle) = servers.remove(&port) { handle.abort() }
StartRemove ==
    /\ cur # None
    /\ cur[1].cmd = "start" /\ cur[1].pc = "remove"
    /\ LET p == cur[1].port
           h == reg[p]
       IN /\ reg' = [reg EXCEPT ![p] = NoHandle]
          /\ tasks' = IF h # NoHandle THEN Abort(tasks, h) ELSE tasks
          /\ cur' = Some([cur[1] EXCEPT !.pc = "spawn", !.old = h])
    /\ UNCHANGED <<conns, ret>>

\* lines 25-30: tokio::spawn of the listener task
StartSpawn ==
    /\ cur # None
    /\ cur[1].cmd = "start" /\ cur[1].pc = "spawn"
    /\ tasks' = Append(tasks, NewTask(cur[1].port))
    /\ cur' = Some([cur[1] EXCEPT !.pc = "insert", !.new = Len(tasks) + 1])
    /\ UNCHANGED <<reg, conns, ret>>

\* lines 32-33: servers.insert(port, handle); Ok(()) -- the guard is dropped
StartInsert ==
    /\ cur # None
    /\ cur[1].cmd = "start" /\ cur[1].pc = "insert"
    /\ reg' = [reg EXCEPT ![cur[1].port] = cur[1].new]
    /\ tasks' = [tasks EXCEPT ![cur[1].new].res = "Ok"]
    /\ ret' = "Ok"
    /\ cur' = None
    /\ UNCHANGED conns

---------------------------------------------------------------------------
(* stop_oauth_server (lib.rs 36-48) *)

\* line 40: state.lock()
StopLock ==
    /\ cur = None
    /\ cur' = Some([cmd |-> "stop", port |-> 0, pc |-> "drain",
                    old |-> NoHandle, new |-> NoHandle])
    /\ UNCHANGED <<reg, tasks, conns, ret>>

\* The handles the registry tracks.
Tracked == {reg[p] : p \in Ports} \ {NoHandle}

\* stop_oauth_server that aborts the handles and leaves them in the map
\* (values() in place of drain()).
StopKeepsEntries ==
    /\ cur # None
    /\ cur[1].cmd = "stop" /\ cur[1].pc = "drain"
    /\ tasks' = [t \in TaskIds |->
                   IF t \in Tracked THEN Abort(tasks, t)[t] ELSE tasks[t]]
    /\ ret' = "Ok"
    /\ cur' = None
    /\ UNCHANGED <<reg, conns>>

\* lines 43-47: for (_, handle) in servers.drain() { handle.abort() }; Ok(())
StopDrain ==
    /\ cur # None
    /\ cur[1].cmd = "stop" /\ cur[1].pc = "drain"
    /\ tasks' = [t \in TaskIds |->
                   IF t \in Tracked THEN Abort(tasks, t)[t] ELSE tasks[t]]
    /\ reg' = EmptyRegistry
    /\ ret' = "Ok"
    /\ cur' = None
    /\ UNCHANGED conns

---------------------------------------------------------------------------
(* The listener task: run_oauth_server (lib.rs 50-108) under the runtime    *)

\* The runtime polls a spawned task for the first time.  A task whose abort
\* was requested before its first poll is never polled.
PollFirst(t) ==
    /\ tasks[t].st = "queued"
    /\ ~tasks[t].abort
    /\ tasks' = [tasks EXCEPT ![t].st = "binding"]
    /\ UNCHANGED <<reg, cur, conns, ret>>

\* Bind without the exclusive use of the port: a second listening socket on
\* an address that already has one.
BindShared(t) ==
    /\ tasks[t].st = "binding"
    /\ \E env \in BOOLEAN :
         tasks' = [tasks EXCEPT ![t].st = IF env THEN "idle" ELSE "failed_env"]
    /\ UNCHANGED <<reg, cur, conns, ret>>

\* Bind whose failure takes the port's entry out of the registry.
BindUnregisters(t) ==
    /\ tasks[t].st = "binding"
    /\ \E env \in BOOLEAN :
         LET st == IF PortHeld(tasks[t].port) THEN "failed_inuse"
                   ELSE IF env THEN "idle"
                   ELSE "failed_env"
         IN /\ tasks' = [tasks EXCEPT ![t].st = st]
            /\ reg' = IF st = "idle" THEN reg
                      ELSE [reg EXCEPT ![tasks[t].port] = NoHandle]
    /\ UNCHANGED <<cur, conns, ret>>

\* line 51: TcpListener::bind("127.0.0.1:port").await?  The OS refuses a
\* second listening socket on the address (EADDRINUSE); it may also refuse
\* for reasons outside the program (`env`: the port belongs to another
\* process, permission denied).  On success the task goes on to line 54 and
\* parks in accept().
Bind(t) ==
    /\ tasks[t].st = "binding"
    /\ \E env \in BOOLEAN :
         tasks' = [tasks EXCEPT ![t].st =
                     IF PortHeld(tasks[t].port) THEN "failed_inuse"
                     ELSE IF env THEN "idle"
                     ELSE "failed_env"]
    /\ UNCHANGED <<reg, cur, conns, ret>>

\* A parked listener is woken because accept() has a result.  An aborted
\* task that is woken is dropped instead of polled (CancelDrop).
Wake(t) ==
    /\ tasks[t].st = "idle"
    /\ ~tasks[t].abort
    /\ Len(conns) < MaxConns
    /\ tasks' = [tasks EXCEPT ![t].st = "polling"]
    /\ UNCHANGED <<reg, cur, conns, ret>>

\* An accept loop that awaits each handler in its body: accept() is not
\* polled again while a handler the loop dispatched has not ended.
AcceptWaitsForHandlers(t, client) ==
    /\ tasks[t].st = "polling"
    /\ Len(conns) < MaxConns
    /\ \A c \in ConnIds : conns[c].lst = t => conns[c].pc = "done"
    /\ conns' = Append(conns, NewConn(t, client))
    /\ tasks' = [tasks EXCEPT ![t].st = "idle"]
    /\ UNCHANGED <<reg, cur, ret>>

\* lines 54-56: accept() returns Ok((stream, _)); the handler is spawned as
\* its own task and the loop goes back to accept().
Accept(t, client) ==
    /\ tasks[t].st = "polling"
    /\ Len(conns) < MaxConns
    /\ conns' = Append(conns, NewConn(t, client))
    /\ tasks' = [tasks EXCEPT ![t].st = "idle"]
    /\ UNCHANGED <<reg, cur, ret>>

\* An accept loop that goes back to accept() after an error.
AcceptErrRetries(t) ==
    /\ tasks[t].st = "polling"
    /\ tasks' = [tasks EXCEPT ![t].st = "idle"]
    /\ UNCHANGED <<reg, cur, conns, ret>>

\* lines 54, 107: accept() returns Err; `while let Ok(..)` ends the loop and
\* the function returns Ok(()), dropping the listener.
AcceptErr(t) ==
    /\ tasks[t].st = "polling"
    /\ tasks' = [tasks EXCEPT ![t].st = "exited"]
    /\ UNCHANGED <<reg, cur, conns, ret>>

\* A runtime in which the handlers are children of the listener task:
\* dropping the listener ends the handlers it spawned where they stand.
CancelDropWithHandlers(t) ==
    /\ tasks[t].abort
    /\ tasks[t].st \in {"queued", "idle"}
    /\ tasks' = [tasks EXCEPT ![t].st = "cancelled"]
    /\ conns' = [c \in ConnIds |->
                   IF conns[c].lst = t THEN [conns[c] EXCEPT !.pc = "done"]
                   ELSE conns[c]]
    /\ UNCHANGED <<reg, cur, ret>>

\* The effect of JoinHandle::abort (line 22 / 44) on the task: at its next
\* scheduling point the runtime drops the future, and with it the listener.
CancelDrop(t) ==
    /\ tasks[t].abort
    /\ tasks[t].st \in {"queued", "idle"}
    /\ tasks' = [tasks EXCEPT ![t].st = "cancelled"]
    /\ UNCHANGED <<reg, cur, conns, ret>>

---------------------------------------------------------------------------
(* The connection handler task (lib.rs 56-104) *)

\* stream.read(&mut buffer).await as an Option of the bytes read
ReadResult(client) ==
    IF client.kind = "data" THEN Some(client.bytes) ELSE None

\* lines 63-66: where the handler goes with the path it parsed (an Option)
Route[path \in Seq(Str)] ==
    IF path = None THEN "done"
    ELSE IF IsCallback(path[1]) /\ HasQuery(path[1]) THEN "emit"
    ELSE "write"

\* A handler that answers only the requests it publishes an event for.
AfterReadAnswersCallbacksOnly(client) ==
    IF ReadResult(client) = None THEN "done"
    ELSE IF Route[PathOf[ReadResult(client)[1]]] = "emit" THEN "emit"
    ELSE "done"

\* A handler that answers whatever the read gave.
AfterReadAnswersAll(client) ==
    IF ReadResult(client) = None THEN "write"
    ELSE IF Route[PathOf[ReadResult(client)[1]]] = "emit" THEN "emit"
    ELSE "write"

\* A handler that writes the response before it looks at the callback
\* parameters.
AfterReadWritesFirst(client) ==
    IF ReadResult(client) = None THEN "done"
    ELSE IF PathOf[ReadResult(client)[1]] = None THEN "done"
    ELSE "write"

\* Where the handler goes after the read: lines 58-66.
AfterRead(client) ==
    IF ReadResult(client) = None THEN "done"
    ELSE Route[PathOf[ReadResult(client)[1]]]

\* lines 57-66: the single read and the parse of the request line
HRead(c) ==
    /\ conns[c].pc = "read"
    /\ conns[c].client.kind # "silent"
    /\ conns' = [conns EXCEPT ![c].pc = AfterRead(conns[c].client)]
    /\ UNCHANGED <<reg, cur, tasks, ret>>

\* A handler that retries a failed emit once.
HEmitRetries(c) ==
    /\ conns[c].pc = "emit"
    /\ \E ok \in BOOLEAN :
         LET event == [name |-> "oauth-callback",
                       payload |-> Payload[PathOf[conns[c].client.bytes][1]],
                       ok |-> ok]
         IN conns' = [conns EXCEPT
                        ![c].events = IF ok THEN Append(@, event)
                                      ELSE @ \o <<event, event>>,
                        ![c].pc = "write"]
    /\ UNCHANGED <<reg, cur, tasks, ret>>

\* lines 67-94: build the payload and app.emit("oauth-callback", payload);
\* a failed emit is logged and the handler goes on.
HEmit(c) ==
    /\ conns[c].pc = "emit"
    /\ \E ok \in BOOLEAN :
         conns' = [conns EXCEPT
                     ![c].events = Append(@,
                         [name |-> "oauth-callback",
                          payload |-> Payload[PathOf[conns[c].client.bytes][1]],
                          ok |-> ok]),
                     ![c].pc = "write"]
    /\ UNCHANGED <<reg, cur, tasks, ret>>

\* lines 99-100: stream.write_all(response); the stream is dropped after it
HWrite(c) ==
    /\ conns[c].pc = "write"
    /\ conns' = [conns EXCEPT ![c].resp = Append(@, Response200),
                              ![c].pc = "done"]
    /\ UNCHANGED <<reg, cur, tasks, ret>>

---------------------------------------------------------------------------
(* Specifications *)
(*                                                                         *)
(* A handler task owns its stream and shares no state with the registry    *)
(* or with the listener that spawned it, so its steps commute with theirs. *)
(* Next is the whole program.  The claims are checked on its parts:        *)
(*   SpecRegistry  the commands and the listener tasks (handlers spawned   *)
(*                 by accept, their steps left out);                       *)
(*   SpecParse     the handler of one accepted connection, over an         *)
(*                 enumeration of what its read can return.                *)
(*   SpecServe     one served port: its listener, the handlers it          *)
(*                 dispatches, and the commands that cancel it;            *)
(*   SpecAccept    one listener's accept loop and its handlers;            *)
(*   SpecStop      the commands and the listener tasks, the accepted       *)
(*                 connections' clients silent.                            *)

Commands ==
    \/ \E p \in Ports : StartLock(p)
    \/ StartRemove
    \/ StartSpawn
    \/ StartInsert
    \/ StopLock
    \/ StopDrain

Listeners ==
    \/ \E t \in TaskIds : PollFirst(t)
    \/ \E t \in TaskIds : Bind(t)
    \/ \E t \in TaskIds : CancelDrop(t)
    \/ \E t \in TaskIds : Wake(t)
    \/ \E t \in TaskIds, client \in SampleClients : Accept(t, client)
    \/ \E t \in TaskIds : AcceptErr(t)

Handlers ==
    \/ \E c \in ConnIds : HRead(c)
    \/ \E c \in ConnIds : HEmit(c)
    \/ \E c \in ConnIds : HWrite(c)

Next == Commands \/ Listeners \/ Handlers

Spec == Init /\ [][Next]_vars

NextRegistry == Commands \/ Listeners

SpecRegistry == Init /\ [][NextRegistry]_vars

---------------------------------------------------------------------------
(* What the single read of a handler can return: the inputs of SpecParse    *)

\* '&'-separated items of a query string
Items ==
    { <<>>,
      <<"code">>,
      <<"code", EQ, "a">>,
      <<"code", EQ, "b">>,
      <<"state", EQ, "x", EQ, EQ>>,
      <<"error", EQ, "%41", "%3D">>,
      <<"error_description", EQ, "%FF">> }

RECURSIVE Queries(_)
\* The query strings of 1..n items
Queries(n) ==
    IF n <= 1 THEN Items
    ELSE LET shorter == Queries(n - 1) IN
         shorter \cup {q \o <<AMP>> \o it : q \in shorter, it \in Items}

\* What follows "/callback/" up to the query
ProviderParts ==
    { <<>>, <<"google">>, <<"google", SLASH>>, <<"google", SLASH, "x">> }

CallbackPaths ==
    { CallbackPrefix \o pr \o q :
        pr \in ProviderParts,
        q \in {<<>>} \cup {<<QMARK>> \o qs : qs \in Queries(MaxItems)} }

OtherPaths ==
    { GoogleCallback,
      Favicon,
      <<SLASH>>,
      <<SLASH, "callback">>,
      <<SLASH, "callback", QMARK, "code", EQ, "a">>,
      <<SLASH, "callbackx", SLASH, "google", QMARK, "code", EQ, "a">>,
      <<SLASH, "auth">> \o CallbackPrefix \o <<"google", QMARK, "code", EQ, "a">> }

ParsePaths == CallbackPaths \cup OtherPaths

\* Reads whose first line has no second token
Malformed ==
    { <<>>,
      <<"GET">>,
      <<"GET", SP>>,
      <<SP, SP>>,
      <<"GET", CRLF>> \o GoogleCallback,
      <<CRLF>> \o RequestLine(GoogleCallback) }

ParseRequests ==
    {RequestLine(p) \o Headers : p \in ParsePaths}
      \cup {<<"GET", SP>> \o p : p \in ParsePaths}
      \cup {<<SP, "GET", SP, SP>> \o Favicon, <<SP, "GET", SP, SP>> \o GoogleCallback}
      \cup Malformed

ParseClients == {Silent, ReadFails} \cup {Sends(b) : b \in ParseRequests}

ServePort == CHOOSE p \in Ports : \A q \in Ports : p <= q

\* start_oauth_server(ServePort) has returned, its listener has bound and
\* has accepted one connection, whose handler has not run yet.
InitParse ==
    /\ reg = [EmptyRegistry EXCEPT ![ServePort] = 1]
    /\ cur = None
    /\ tasks = <<[NewTask(ServePort) EXCEPT !.st = "idle", !.res = "Ok"]>>
    /\ conns \in {<<NewConn(1, client)>> : client \in ParseClients}
    /\ ret = "Ok"

NextParse == Handlers

SpecParse == InitParse /\ [][NextParse]_vars

\* The runtime keeps polling a handler task that can make progress: the
\* read of a peer that sends (or fails) completes, emit is synchronous, and
\* the write completes or fails.
HandlerStep(c) == c \in ConnIds /\ (HRead(c) \/ HEmit(c) \/ HWrite(c))

HandlerFairness == \A c \in 1..MaxConns : WF_vars(HandlerStep(c))

SpecParseFair == SpecParse /\ HandlerFairness

\* The lock of a start_oauth_server(ServePort) call that finds the port
\* registered: line 18 has run, line 21 is next.
Replacing ==
    Some([cmd |-> "start", port |-> ServePort, pc |-> "remove",
          old |-> NoHandle, new |-> NoHandle])

\* start_oauth_server(ServePort) has returned and its listener has bound;
\* either no command is running, or a second start_oauth_server(ServePort)
\* has just taken the lock.
InitServe ==
    /\ reg = [EmptyRegistry EXCEPT ![ServePort] = 1]
    /\ cur \in {None, Replacing}
    /\ tasks = <<[NewTask(ServePort) EXCEPT !.st = "idle", !.res = "Ok"]>>
    /\ conns = <<>>
    /\ ret = "Ok"

\* One port being served: its listener, the handlers it spawns, and the
\* commands that cancel it -- stop_oauth_server calls and the replacing
\* start_oauth_server(ServePort) of InitServe, followed by the listener it
\* spawns.
NextServe ==
    \/ StartRemove
    \/ StartSpawn
    \/ StartInsert
    \/ StopLock
    \/ StopDrain
    \/ Listeners
    \/ Handlers

SpecServe == InitServe /\ [][NextServe]_vars

SpecServeFair == SpecServe /\ HandlerFairness

\* start_oauth_server(ServePort) has returned, its listener has bound, and
\* no command is running.
InitAccept == InitServe /\ cur = None

\* One listener and its accept loop: the connections it accepts, their
\* handlers, and the stop_oauth_server calls that cancel it.
NextAccept ==
    \/ StopLock
    \/ StopDrain
    \/ \E t \in TaskIds : CancelDrop(t)
    \/ \E t \in TaskIds : Wake(t)
    \/ \E t \in TaskIds, client \in SampleClients : Accept(t, client)
    \/ \E t \in TaskIds : AcceptErr(t)
    \/ Handlers

SpecAccept == InitAccept /\ [][NextAccept]_vars

\* The runtime polls a woken listener task: unless accept() fails, it
\* returns the connection and the loop body spawns the handler.
AcceptStep(t) ==
    t \in TaskIds /\ \E client \in SampleClients : Accept(t, client)

AcceptFairness == \A t \in 1..MaxTasks : WF_vars(AcceptStep(t))

SpecAcceptFair == SpecAccept /\ HandlerFairness /\ AcceptFairness

\* The commands and the listener tasks, with connections whose handlers
\* are left out (their clients never send).
NextStop ==
    \/ \E p \in Ports : StartLock(p)
    \/ StartRemove
    \/ StartSpawn
    \/ StartInsert
    \/ StopLock
    \/ StopDrain
    \/ \E t \in TaskIds : PollFirst(t)
    \/ \E t \in TaskIds : Bind(t)
    \/ \E t \in TaskIds : CancelDrop(t)
    \/ \E t \in TaskIds : Wake(t)
    \/ \E t \in TaskIds : Accept(t, Silent)
    \/ \E t \in TaskIds : AcceptErr(t)

SpecStop == Init /\ [][NextStop]_vars

\* The runtime drops an aborted task that is parked or not yet polled, and
\* a poll of the listener task that is under way comes to its end: bind
\* returns, accept() returns a connection or an error.
ListenerStep(t) ==
    /\ t \in TaskIds
    /\ \/ CancelDrop(t)
       \/ Bind(t)
       \/ Accept(t, Silent)
       \/ AcceptErr(t)

ListenerFairness == \A t \in 1..MaxTasks : WF_vars(ListenerStep(t))

SpecStopFair == SpecStop /\ ListenerFairness

---------------------------------------------------------------------------
(* Claims about the registry and the listener tasks (SpecRegistry)          *)

BoundOn(p) == {t \in TaskIds : tasks[t].port = p /\ Bound(t)}

BindFailed(t) == tasks[t].st \in {"failed_inuse", "failed_env"}

\* Nothing is left to happen to the listener tasks of port p: none is
\* waiting for its first poll, in its first poll, in an accept poll, or
\* aborted and not yet dropped.
Settled(p) ==
    \A t \in TaskIds :
        tasks[t].port = p =>
            \/ Finished(t)
            \/ tasks[t].st = "idle" /\ ~tasks[t].abort

\* The handle registered for p comes from a start_oauth_server(p) call that
\* followed an earlier start_oauth_server(p) call, and no
\* stop_oauth_server has drained it since.
Restarted(p) ==
    /\ reg[p] # NoHandle
    /\ \E t \in TaskIds : t < reg[p] /\ tasks[t].port = p

\* C1: once two start_oauth_server(port) calls have returned, with no
\* stop_oauth_server after them, and the aborted and the new listener task
\* have both been scheduled, exactly one listener is bound to the port and
\* accepting -- never zero.  (A new listener that the OS refused for a
\* reason outside the program, or whose accept failed, is not the claim's
\* case.)
C1_RestartLeavesOneListener ==
    \A p \in Ports :
        ( /\ cur = None
          /\ Restarted(p)
          /\ Settled(p)
          /\ tasks[reg[p]].st \notin {"failed_env", "exited"} )
        => Cardinality(BoundOn(p)) = 1

\* C2: in every reachable state at most one listener task is bound to a
\* port.
C2_AtMostOneListenerPerPort ==
    \A p \in Ports : Cardinality(BoundOn(p)) <= 1

\* C2's case: a listener is bound to a port while another listener task of
\* the same port has tried to bind.
C2_Witness ==
    \E t1 \in TaskIds, t2 \in TaskIds :
        /\ tasks[t1].port = tasks[t2].port
        /\ Bound(t1)
        /\ tasks[t2].st = "failed_inuse"

StopReturns == cur # None /\ cur[1].cmd = "stop" /\ cur' = None

\* C4: stop_oauth_server aborts every handle the registry tracks (an abort
\* has no effect on a task that has finished), leaves the registry empty
\* and returns Ok; on an empty registry it changes nothing, so a second
\* call right after the first is a no-op.
C4_StopDrainsRegistry ==
    [][StopReturns =>
         /\ reg' = EmptyRegistry
         /\ ret' = "Ok"
         /\ \A h \in Tracked : tasks'[h].abort \/ Finished(h)
         /\ \A t \in TaskIds \ Tracked : tasks'[t] = tasks[t]
         /\ Tracked = {} => UNCHANGED <<reg, tasks, conns>>]_vars

\* C4's case: a stop_oauth_server call has returned after draining the
\* handles of two ports whose listeners were still running.
C4_Witness ==
    /\ cur = None
    /\ reg = EmptyRegistry
    /\ ret = "Ok"
    /\ \E t1 \in TaskIds, t2 \in TaskIds :
        /\ tasks[t1].port # tasks[t2].port
        /\ tasks[t1].abort /\ ~Finished(t1)
        /\ tasks[t2].abort /\ ~Finished(t2)

---------------------------------------------------------------------------
(* Claims about the connection handler (SpecParse)                          *)

\* The handler of connection c has run to its end.
HandlerDone(c) == conns[c].pc = "done"

\* The read of connection c delivers bytes (possibly none).
ReadOk(c) == conns[c].client.kind = "data"

\* The whitespace-separated tokens of the first line of what c's read
\* delivers; none when it delivers nothing.
Tokens(c) ==
    LET bytes == conns[c].client.bytes IN
    IF bytes = <<>> THEN <<>>
    ELSE SplitWhitespace[Head(Split[bytes, CRLF])]

\* The request line of c parses: the read succeeded and the line has a
\* method and a path.
Parses(c) == ReadOk(c) /\ Len(Tokens(c)) >= 2

RequestPath(c) == Tokens(c)[2]

Published(c) == conns[c].events # <<>>

\* C5: a handled connection whose request line parses has published an
\* "oauth-callback" event exactly if its path starts with /callback/,
\* with or without a query string.
C5_EventIffCallbackPath ==
    \A c \in ConnIds :
        (HandlerDone(c) /\ Parses(c))
        => (Published(c) <=> StartsWith[RequestPath(c), CallbackPrefix])

\* C6: the provider of every published payload is the <p> of the request
\* path /callback/<p>?<query> -- the path component between the second and
\* the third '/' of the path without its query string -- and "unknown"
\* when the path has no segment after /callback.
C6_ProviderIsPathSegment ==
    LET PathWithoutQuery(path) ==
            IF Find[path, QMARK] = 0 THEN path
            ELSE SubSeq(path, 1, Find[path, QMARK] - 1)
        ProviderSegment(path) ==
            LET segs == Split[PathWithoutQuery(path), SLASH] IN
            IF Len(segs) >= 3 /\ segs[3] # <<>> THEN segs[3]
            ELSE <<"unknown">>
    IN \A c \in ConnIds :
         \A i \in 1..Len(conns[c].events) :
            conns[c].events[i].payload.provider
                = ProviderSegment(RequestPath(c))

\* C7: a handler whose request line has at least two tokens eventually
\* writes the fixed 200 response, and has written it exactly once when it
\* ends -- whatever the path, with or without a query, and whether or not
\* the emit failed.
C7_ParsedRequestGets200 ==
    \A c \in 1..MaxConns :
        /\ []((c \in ConnIds /\ Parses(c) /\ HandlerDone(c))
                => conns[c].resp = <<Response200>>)
        /\ (c \in ConnIds /\ Parses(c))
              ~> (c \in ConnIds /\ conns[c].resp = <<Response200>>)

\* C7's case: the response was written after a failed emit.
C7_Witness ==
    \E c \in ConnIds :
        /\ HandlerDone(c)
        /\ conns[c].resp = <<Response200>>
        /\ Published(c)
        /\ ~conns[c].events[1].ok

\* The read of c fails, delivers nothing, or delivers a first line with
\* fewer than two tokens.
Unparsable(c) == conns[c].client.kind # "silent" /\ ~Parses(c)

\* C8: a handler whose read fails or returns zero bytes, or whose first
\* line has fewer than two tokens, ends right after the read: it writes no
\* response and publishes no event.
C8_UnparsableGetsNothing ==
    \A c \in ConnIds :
        Unparsable(c) =>
            /\ conns[c].pc \in {"read", "done"}
            /\ conns[c].resp = <<>>
            /\ conns[c].events = <<>>

\* C8's cases: handlers that have ended after a failed read, after an empty
\* read, and after a first line of one token.
C8_Witness ==
    \E c \in ConnIds :
        /\ HandlerDone(c)
        /\ conns[c].client \in {ReadFails, Sends(<<>>), Sends(<<"GET">>)}

\* C9: each '&'-separated item of the query that has an '=' gives the key
\* before its first '=' and, as value, the percent-decoded text after that
\* first '=' (further '=' included); items without '=' give nothing; the
\* last item of a key gives its value.  The code, state, error and
\* error_description of every published payload are the values of that
\* mapping for the query of the request path, null when the key is absent.
C9_PayloadFromFirstEqualsSplit ==
    LET ItemKey(item) == SubSeq(item, 1, Find[item, EQ] - 1)
        ItemValue(item) ==
            UnwrapOrDefault(
                Decode[SubSeq(item, Find[item, EQ] + 1, Len(item))])
        Lookup(query, key) ==
            LET items == Split[query, AMP]
                hits  == {i \in 1..Len(items) :
                             /\ Find[items[i], EQ] # 0
                             /\ ItemKey(items[i]) = key}
            IN IF hits = {} THEN None
               ELSE Some(ItemValue(
                        items[CHOOSE i \in hits : \A j \in hits : j <= i]))
    IN \A c \in ConnIds :
         \A i \in 1..Len(conns[c].events) :
            LET query   == QueryOf[RequestPath(c)]
                payload == conns[c].events[i].payload
            IN /\ payload.code = Lookup(query, <<"code">>)
               /\ payload.state = Lookup(query, <<"state">>)
               /\ payload.error = Lookup(query, <<"error">>)
               /\ payload.error_description
                     = Lookup(query, <<"error_description">>)

---------------------------------------------------------------------------
(* Claims about handlers whose listener is cancelled (SpecServeFair)        *)

\* The listener that accepted connection c has been aborted, by
\* stop_oauth_server or by a replacing start_oauth_server.
ListenerCancelled(c) == tasks[conns[c].lst].abort

\* The clients whose request the handler publishes an event for: the path
\* starts with /callback/ and has a query.
CallbackClients ==
    {client \in SampleClients :
        /\ client.kind = "data"
        /\ Route[PathOf[client.bytes]] = "emit"}

\* The request of c is one the handler publishes an event for.
CallbackRequest(c) == conns[c].client \in CallbackClients

\* The handler of c has run to its end, with its event published and the
\* response written.
Served(c) ==
    /\ HandlerDone(c)
    /\ Published(c)
    /\ conns[c].resp = <<Response200>>

\* C10: a handler dispatched by a listener that is then cancelled -- by
\* stop_oauth_server or by a replacing start_oauth_server(port) -- is not
\* cancelled with it.  No step that aborts or drops a listener changes a
\* handler, and under fair scheduling of the handlers every handler of a
\* callback request whose listener has been aborted runs to its end,
\* having published its event and written its response: from some point
\* on all of them have (an abort is never undone and a handler that has
\* ended stays ended).
C10_HandlerSurvivesCancel ==
    /\ <>[](\A c \in ConnIds :
              (CallbackRequest(c) /\ ListenerCancelled(c)) => Served(c))
    /\ [][(\E t \in TaskIds :
              \/ tasks'[t].abort # tasks[t].abort
              \/ tasks'[t].st = "cancelled" /\ tasks[t].st # "cancelled")
           => conns' = conns]_vars

\* C10's case: the listener was replaced by a second
\* start_oauth_server(ServePort) and dropped while the handler it had
\* dispatched had not yet read its request.
C10_Witness ==
    \E c \in ConnIds :
        /\ CallbackRequest(c)
        /\ conns[c].pc = "read"
        /\ tasks[conns[c].lst].st = "cancelled"
        /\ reg[ServePort] \notin {NoHandle, conns[c].lst}

---------------------------------------------------------------------------
(* Claims about the accept loop (SpecAcceptFair)                            *)

\* A handler dispatched by listener t is stuck in its read: its client
\* never sends.
StuckHandler(t) ==
    \E c \in ConnIds :
        /\ conns[c].lst = t
        /\ conns[c].client = Silent
        /\ conns[c].pc = "read"

\* accept() of listener t has a result that the loop has not taken yet.
AcceptReady(t) == tasks[t].st = "polling"

\* C11: the accept loop never waits for a handler.  While a handler of the
\* listener is stuck in its read, a connection that accept() has ready is
\* still taken (unless accept() fails), and taking it dispatches a new
\* handler, at its read, and puts the loop back in accept().
C11_AcceptNeverWaitsForHandler ==
    /\ \A t \in 1..MaxTasks :
          (t \in TaskIds /\ AcceptReady(t) /\ StuckHandler(t))
              ~> (t \in TaskIds /\ ~AcceptReady(t))
    /\ [][\A t \in TaskIds :
            (AcceptReady(t) /\ tasks'[t].st = "idle")
            => /\ Len(conns') = Len(conns) + 1
               /\ conns'[Len(conns')].lst = t
               /\ conns'[Len(conns')].pc = "read"
               /\ SubSeq(conns', 1, Len(conns)) = conns]_vars

\* C11's case: the first handler is still stuck in its read while a
\* connection accepted after it has been handled to its end.
C11_Witness ==
    /\ Len(conns) >= 2
    /\ conns[1].client = Silent
    /\ conns[1].pc = "read"
    /\ conns[2].lst = conns[1].lst
    /\ conns[2].pc = "done"
    /\ conns[2].resp = <<Response200>>

---------------------------------------------------------------------------
(* More claims about the connection handler (SpecParse)                     *)

\* The request line of c parses and its path is a callback path with a
\* query.
CallbackRequestIn(c) ==
    /\ Parses(c)
    /\ IsCallback(RequestPath(c))
    /\ HasQuery(RequestPath(c))

\* C12: in every reachable state every accepted connection has published
\* at most one "oauth-callback" event.
C12_AtMostOneEventPerConnection ==
    \A c \in ConnIds :
        /\ Len(conns[c].events) <= 1
        /\ \A i \in 1..Len(conns[c].events) :
              conns[c].events[i].name = "oauth-callback"

\* C12's case: a handler has ended after publishing its one event.
C12_Witness ==
    \E c \in ConnIds :
        /\ HandlerDone(c)
        /\ Len(conns[c].events) = 1
        /\ conns[c].events[1].ok

---------------------------------------------------------------------------
(* More claims about the listener tasks (SpecRegistry)                      *)

\* The connections a step accepts.
Accepted == (DOMAIN conns') \ ConnIds

\* C13: an accept() that ends without a connection ends the loop; the
\* listener task that ended this way never runs or accepts again; and a
\* listener task comes into being only in the spawn of a
\* start_oauth_server call, for the port of that call -- so whatever
\* accepts on the port afterwards was started by the host.
C13_AcceptFailureEndsLoop ==
    /\ [][\A t \in TaskIds :
            (AcceptReady(t) /\ ~AcceptReady(t)' /\ Accepted = {})
            => tasks'[t].st = "exited"]_vars
    /\ [][\A t \in TaskIds :
            tasks[t].st = "exited"
            => /\ tasks'[t].st = "exited"
               /\ \A c \in Accepted : conns'[c].lst # t]_vars
    /\ [][Len(tasks') # Len(tasks)
            => /\ cur # None
               /\ cur[1].cmd = "start"
               /\ tasks' = Append(tasks, NewTask(cur[1].port))]_vars

\* C13's case: the listener of a port has ended on an accept failure after
\* accepting a connection; the registry still holds its handle and no
\* other listener task exists for the port.
C13_Witness ==
    \E t \in TaskIds :
        /\ tasks[t].st = "exited"
        /\ reg[tasks[t].port] = t
        /\ \E c \in ConnIds : conns[c].lst = t
        /\ \A u \in TaskIds \ {t} : tasks[u].port # tasks[t].port

\* C14: when the query has two or more items with the same key (the text
\* before the item's first '='), the payload has one value for that key,
\* and it is the value the last of these items gives when it is the whole
\* query: code=a&code=b gives code = "b".
C14_LastDuplicateKeyWins ==
    LET KeyOf(item) == SubSeq(item, 1, Find[item, EQ] - 1)
        Alone(item, key) == Get(Collect[Pairs[item]], key)
        Last(items, key) ==
            LET hits == {j \in 1..Len(items) :
                            /\ Find[items[j], EQ] # 0
                            /\ KeyOf(items[j]) = key}
            IN IF Cardinality(hits) < 2 THEN 0
               ELSE CHOOSE j \in hits : \A h \in hits : h <= j
        Holds(items, key, field) ==
            Last(items, key) # 0
            => /\ Len(field) = 1
               /\ field = Alone(items[Last(items, key)], key)
    IN \A c \in ConnIds :
         \A i \in 1..Len(conns[c].events) :
            LET items   == Split[QueryOf[RequestPath(c)], AMP]
                payload == conns[c].events[i].payload
            IN /\ Holds(items, <<"code">>, payload.code)
               /\ Holds(items, <<"state">>, payload.state)
               /\ Holds(items, <<"error">>, payload.error)
               /\ Holds(items, <<"error_description">>,
                        payload.error_description)

\* C14's case: the event of a request with the query code=a&code=b has
\* been published, with code "b".
C14_Witness ==
    \E c \in ConnIds :
        /\ Published(c)
        /\ QueryOf[RequestPath(c)]
              = <<"code", EQ, "a", AMP, "code", EQ, "b">>
        /\ conns[c].events[1].payload.code = Some(<<"b">>)

\* C15: when the value of a query item fails to percent-decode, the key of
\* the item is kept with the empty string as value (where no later item
\* of the key replaces it), the payload's values for the other keys are
\* those of the query without the failing items, and the handler still
\* publishes its event and writes the 200 response.
C15_DecodeFailureGivesEmptyValue ==
    LET Fails(item) ==
            /\ Find[item, EQ] # 0
            /\ Decode[Split[item, EQ][2]] = None
        KeyOf(item) == SubSeq(item, 1, Find[item, EQ] - 1)
        Decides(items, j) ==
            /\ Fails(items[j])
            /\ \A h \in (j + 1)..Len(items) :
                  Find[items[h], EQ] # 0 => KeyOf(items[h]) # KeyOf(items[j])
        FailedKeys(items) ==
            {KeyOf(items[j]) : j \in {h \in 1..Len(items) : Fails(items[h])}}
        Rest(items) ==
            Collect[FilterMap[SelectSeq(items, LAMBDA it : ~Fails(it))]]
        Holds(items, key, field) ==
            /\ (\E j \in 1..Len(items) :
                    Decides(items, j) /\ KeyOf(items[j]) = key)
                => field = Some(<<>>)
            /\ key \notin FailedKeys(items)
                => field = Get(Rest(items), key)
    IN \A c \in ConnIds :
         LET items == Split[QueryOf[RequestPath(c)], AMP] IN
         (CallbackRequestIn(c) /\ FailedKeys(items) # {})
         => /\ HandlerDone(c)
                => Published(c) /\ conns[c].resp = <<Response200>>
            /\ \A i \in 1..Len(conns[c].events) :
                 LET payload == conns[c].events[i].payload
                 IN /\ Holds(items, <<"code">>, payload.code)
                    /\ Holds(items, <<"state">>, payload.state)
                    /\ Holds(items, <<"error">>, payload.error)
                    /\ Holds(items, <<"error_description">>,
                             payload.error_description)

\* C15's case: the handler of a request with the query
\* code=a&error_description=%FF has ended.
C15_Witness ==
    \E c \in ConnIds :
        /\ HandlerDone(c)
        /\ Parses(c)
        /\ QueryOf[RequestPath(c)]
              = <<"code", EQ, "a", AMP, "error_description", EQ, "%FF">>
        /\ Published(c)
        /\ conns[c].events[1].payload.error_description = Some(<<>>)
        /\ conns[c].events[1].payload.code = Some(<<"a">>)
        /\ conns[c].resp = <<Response200>>

\* C18: the handler's steps run in sequence.  For a callback request the
\* event has been published, or its failure logged, by the time any of
\* the response is written, and nothing is published once the response
\* has been written; the response is written only after the read.
C18_EventBeforeResponse ==
    [][\A c \in ConnIds :
        /\ conns'[c].resp # conns[c].resp
            => /\ conns[c].pc = "write"
               /\ conns'[c].events = conns[c].events
               /\ CallbackRequestIn(c) => Published(c)
        /\ conns'[c].events # conns[c].events
            => /\ conns[c].pc = "emit"
               /\ conns[c].resp = <<>>
               /\ conns'[c].resp = <<>>]_vars

\* C18's case: the handler of a callback request has published its event
\* and has not yet written any of the response.
C18_Witness ==
    \E c \in ConnIds :
        /\ CallbackRequestIn(c)
        /\ Published(c)
        /\ conns[c].pc = "write"
        /\ conns[c].resp = <<>>

---------------------------------------------------------------------------
(* Claims about the registry lock (SpecRegistry)                            *)

\* The registry lock is held (a MutexGuard is alive).
LockHeld == cur # None

\* The statements that mutate the map: servers.remove (line 21),
\* servers.insert (line 32), servers.drain (line 43).
MapMutations == {"remove", "insert", "drain"}

\* C16: the registry lock is held only while the map is being mutated:
\* whenever it is held, the next statement of its holder is a mutation of
\* the map -- never the spawn of the listener task (nor its bind), so no
\* other call waits on the lock during a spawn.
C16_LockOnlyAroundMapMutation ==
    LockHeld => cur[1].pc \in MapMutations

---------------------------------------------------------------------------
(* Claims about stopped listeners (SpecStopFair)                            *)

\* The registry is as stop_oauth_server leaves it and no
\* start_oauth_server call is running.
Stopped ==
    /\ reg = EmptyRegistry
    /\ cur = None \/ cur[1].cmd = "stop"

NoListener == \A t \in TaskIds : ~Bound(t)

\* C17: in a fair behaviour in which, from some point on, the registry
\* stays as stop_oauth_server left it and no start_oauth_server call runs,
\* eventually no listener task is bound, and none is ever after; while no
\* listener is bound and no start runs, no connection is accepted; and a
\* listener task that had not bound when stop_oauth_server aborted it
\* never binds.
C17_StoppedListenersGoAway ==
    /\ <>[]Stopped => <>[]NoListener
    /\ [][(Stopped /\ NoListener) => Accepted = {}]_vars
    /\ [][\A t \in TaskIds :
            (Stopped /\ tasks[t].abort /\ ~Bound(t)) => ~Bound(t)']_vars

\* A listener task that has not finished and has not been aborted.
Live(t) == ~Finished(t) /\ ~tasks[t].abort

\* The start_oauth_server call holding the lock has spawned t and is about
\* to insert its handle.
BeingInserted(t) ==
    /\ cur # None
    /\ cur[1].cmd = "start"
    /\ cur[1].pc = "insert"
    /\ cur[1].new = t

\* C19: in every reachable state every listener task that has not been
\* aborted (and has not ended by itself) is the handle the registry holds
\* for its port -- or the task that the start_oauth_server call holding
\* the lock has just spawned and inserts before it releases the lock.
C19_LiveListenersAreRegistered ==
    \A t \in TaskIds :
        Live(t) => (reg[tasks[t].port] = t \/ BeingInserted(t))

\* C19's case: with no call running, a replaced listener that has been
\* aborted and not yet dropped is outside the registry, and the one that
\* replaced it is live and registered.
C19_Witness ==
    /\ cur = None
    /\ \E t \in TaskIds, u \in TaskIds :
          /\ tasks[t].port = tasks[u].port
          /\ tasks[t].abort /\ Bound(t)
          /\ Live(u) /\ reg[tasks[u].port] = u

\* A step of the start_oauth_server call that holds the lock.
StartStep ==
    /\ cur # None
    /\ cur[1].cmd = "start"
    /\ cur' # cur

\* C20: every step of start_oauth_server(p) leaves the registry's handle
\* of every other port q as it is and changes no listener task of q --
\* none is aborted -- and the task it spawns is one for p.
C20_StartLeavesOtherPortsAlone ==
    [][StartStep =>
         \A q \in Ports \ {cur[1].port} :
            /\ reg'[q] = reg[q]
            /\ \A t \in TaskIds :
                  tasks[t].port = q => tasks'[t] = tasks[t]
            /\ \A t \in (DOMAIN tasks') \ TaskIds :
                  tasks'[t].port # q]_vars

\* C20's case: start_oauth_server(p) has returned while the listener of
\* another port q, started before it, is accepting, un-aborted and
\* registered.
C20_Witness ==
    /\ cur = None
    /\ \E t \in TaskIds, u \in TaskIds :
          /\ t < u
          /\ tasks[t].port # tasks[u].port
          /\ tasks[u].res = "Ok"
          /\ reg[tasks[u].port] = u
          /\ reg[tasks[t].port] = t
          /\ tasks[t].st = "idle" /\ ~tasks[t].abort

=============================================================================
